---- MODULE Spec2Model ----
(***************************************************************************)
(* Model of server.py: the /upload request handler (multipart decoding,    *)
(* file storage, EXIF/GPS extraction, reverse geocoding, POI search), the  *)
(* computations it relies on, and query_wikidata_pois.                     *)
(*                                                                         *)
(* Byte strings and text are sequences of one-byte tokens.  Multi-byte     *)
(* keywords the code searches for are sequences too, so that splitting,    *)
(* searching and stripping are computed the way Python computes them.      *)
(***************************************************************************)
EXTENDS Integers, Sequences, FiniteSets, TLC

VARIABLES
    pc,               \* position of the /upload handler
    req,              \* the request being handled: content type, length header, body
    sent,             \* what the client encoded into the body (filename, payload)
    filename,         \* local `filename` of do_POST (set = FALSE is None)
    image_data,       \* local `image_data` of do_POST (set = FALSE is None)
    status,           \* HTTP status sent (0: none yet)
    response,         \* JSON object sent with a 200
    disk,             \* the upload directory: stored name -> bytes
    writes,           \* number of file writes of the current request
    clock,            \* datetime.now() truncated to the second
    image,            \* what PIL reads from the stored file
    exif_data,        \* result of extract_exif_data
    camera_direction, \* local `camera_direction`
    location_data,    \* local `location_data`
    poi_data,         \* local `poi_data`
    calls,            \* outbound calls of the current request with what the
                      \* network delivered, in order
    served,           \* number of upload requests received
    hist,             \* observations: the upload directory when the request
                      \* arrived, the stages run for it so far in order, and
                      \* the paths of the uploads answered with a 200 so far
    fin,              \* input of the pure computation under check
    fout              \* its output

vars == <<pc, req, sent, filename, image_data, status, response, disk, writes,
          clock, image, exif_data, camera_direction, location_data, poi_data,
          calls, served, hist, fin, fout>>

handlerVars == <<pc, req, sent, filename, image_data, status, response, disk,
                 writes, clock, image, exif_data, camera_direction,
                 location_data, poi_data, calls, served, hist>>

-----------------------------------------------------------------------------
(* Bytes and the keywords the decoder looks for *)

CR == "CR"
LF == "LF"
SP == "SP"
DQ == "DQ"                     \* the double quote
SQ == "SQ"                     \* the single quote
CRLF == <<CR, LF>>
CRLFCRLF == <<CR, LF, CR, LF>>
ContentDisposition == <<"Content-Disposition">>
FilenameEq == <<"filename=">>
Boundary == <<"B">>            \* the token after boundary= in Content-Type
Dashes == <<"-", "-">>
Whitespace == {SP, CR, LF, "TAB"}

None == [set |-> FALSE, val |-> <<>>]
Some(v) == [set |-> TRUE, val |-> v]
\* Python truthiness of an optional bytes/str value
Truthy(o) == o.set /\ o.val # <<>>

-----------------------------------------------------------------------------
(* Python's bytes/str operations *)

IsAt(s, sub, i) ==
    /\ i >= 1
    /\ i + Len(sub) - 1 <= Len(s)
    /\ \A k \in 1..Len(sub) : s[i + k - 1] = sub[k]

\* s.find(sub, i), counting from 1; 0 when sub does not occur
RECURSIVE FindFrom(_, _, _)
FindFrom(s, sub, i) ==
    IF i + Len(sub) - 1 > Len(s) THEN 0
    ELSE IF IsAt(s, sub, i) THEN i
    ELSE FindFrom(s, sub, i + 1)

\* s.rfind(sub) searched downwards from i; 0 when sub does not occur
RECURSIVE RFindFrom(_, _, _)
RFindFrom(s, sub, i) ==
    IF i < 1 THEN 0
    ELSE IF IsAt(s, sub, i) THEN i
    ELSE RFindFrom(s, sub, i - 1)

\* `sub in s`
Contains(s, sub) == FindFrom(s, sub, 1) # 0

Min(S) == CHOOSE x \in S : \A y \in S : x <= y
Max(S) == CHOOSE x \in S : \A y \in S : x >= y

CutAt(s, i, n) == <<SubSeq(s, 1, i - 1), SubSeq(s, i + n, Len(s))>>

\* s.split(sep)
RECURSIVE Split(_, _)
Split(s, sep) ==
    LET i == FindFrom(s, sep, 1)
    IN  IF i = 0 THEN <<s>>
        ELSE <<SubSeq(s, 1, i - 1)>> \o Split(SubSeq(s, i + Len(sep), Len(s)), sep)

\* s.split(sep, 1)
SplitOnce(s, sep) ==
    LET i == FindFrom(s, sep, 1)
    IN  IF i = 0 THEN <<s>> ELSE CutAt(s, i, Len(sep))

\* s.rsplit(sep, 1)
RSplitOnce(s, sep) ==
    LET i == RFindFrom(s, sep, Len(s) - Len(sep) + 1)
    IN  IF i = 0 THEN <<s>> ELSE CutAt(s, i, Len(sep))

\* s.strip(chars)
Strip(s, chars) ==
    LET keep == {i \in 1..Len(s) : s[i] \notin chars}
    IN  IF keep = {} THEN <<>> ELSE SubSeq(s, Min(keep), Max(keep))

\* s.replace(ch, '')
Remove(s, chars) == SelectSeq(s, LAMBDA c : c \notin chars)

-----------------------------------------------------------------------------
(* The multipart bodies a client sends (RFC 7578 framing) *)

\* One part carrying a file: headers, blank line, payload, CRLF.
FilePart(fname, payload) ==
    CRLF \o ContentDisposition \o <<"; name=">> \o FilenameEq \o <<DQ>> \o fname
         \o <<DQ>> \o CRLF \o <<"Content-Type: image/jpeg">> \o CRLFCRLF
         \o payload \o CRLF

\* One part carrying an ordinary form field.
FieldPart(value) ==
    CRLF \o ContentDisposition \o <<"; name=">> \o CRLFCRLF \o value \o CRLF

\* A file part whose header block is not closed by a blank line.
TruncatedFilePart(fname) ==
    CRLF \o ContentDisposition \o <<"; name=">> \o FilenameEq \o <<DQ>> \o fname
         \o <<DQ>> \o CRLF

RECURSIVE JoinParts(_, _)
JoinParts(parts, boundary) ==
    IF parts = <<>> THEN <<>>
    ELSE Dashes \o boundary \o Head(parts) \o JoinParts(Tail(parts), boundary)

EncodeMultipart(parts, boundary) ==
    JoinParts(parts, boundary) \o Dashes \o boundary \o Dashes \o CRLF

-----------------------------------------------------------------------------
(* The upload decoder: do_POST, lines 770-800 *)

\* line.split('filename=')[1].strip().strip('"').strip("'").strip()
FilenameOfLine(line) ==
    Strip(Strip(Strip(Strip(Split(line, FilenameEq)[2], Whitespace), {DQ}), {SQ}),
          Whitespace)

\* for line in headers_str.split('\n'): if 'filename=' in line: ...; break
FilenameOfHeaders(headers_str, current) ==
    LET lines == Split(headers_str, <<LF>>)
        hits  == {i \in 1..Len(lines) : Contains(lines[i], FilenameEq)}
    IN  IF hits = {} THEN current ELSE Some(FilenameOfLine(lines[Min(hits)]))

\* content.rsplit(b'\r\n', 1)[0]
TrimContentStripAll(content) == Strip(content, {CR, LF})
TrimContent(content) == RSplitOnce(content, CRLF)[1]

\* The body of the loop over parts.  st.raised records the ValueError of the
\* two-target unpacking when the part holds no blank line.
ParsePart(st, part) ==
    IF st.raised THEN st
    ELSE IF Contains(part, ContentDisposition) /\ Contains(part, FilenameEq)
    THEN LET hc == SplitOnce(part, CRLFCRLF)
         IN  IF Len(hc) < 2 THEN [st EXCEPT !.raised = TRUE]
             ELSE [raised     |-> FALSE,
                   filename   |-> FilenameOfHeaders(hc[1], st.filename),
                   image_data |-> Some(TrimContent(hc[2]))]
    ELSE st

RECURSIVE ParseParts(_, _)
ParseParts(st, parts) ==
    IF parts = <<>> THEN st
    ELSE ParseParts(ParsePart(st, Head(parts)), Tail(parts))

\* parts = body.split(b'--' + boundary); image_data = None; filename = None; loop
ParseMultipart(body, boundary) ==
    ParseParts([raised |-> FALSE, filename |-> None, image_data |-> None],
               Split(body, Dashes \o boundary))

\* filename.replace('"', '').replace("'", '').replace('\n', '').replace('\r', '')
CleanFilename(name) == Remove(name, {DQ, SQ, LF, CR})

-----------------------------------------------------------------------------
(* Numbers.  Angles are integers in units of 1/(36000*111) degree, so that  *)
(* a tenth of an arc second is 111 units and one metre of the code's       *)
(* 111000 m/degree is 36 units.                                            *)

DegUnits == 36000 * 111
UnitsPerMetre == DegUnits \div 111000

\* the largest r in lo..hi with r*r <= v
RECURSIVE ISqrtIn(_, _, _)
ISqrtIn(v, lo, hi) ==
    IF lo >= hi THEN lo
    ELSE LET mid == (lo + hi + 1) \div 2
         IN  IF mid * mid <= v THEN ISqrtIn(v, mid, hi) ELSE ISqrtIn(v, lo, mid - 1)

ISqrt(v) == ISqrtIn(v, 0, 46340)

-----------------------------------------------------------------------------
(* extract_exif_data and convert_to_degrees: lines 42-97 *)

\* PIL.ExifTags.TAGS / GPSTAGS for the tag ids the model's images carry
TAGS(tag_id) ==
    CASE tag_id = 271 -> "Make"
      [] tag_id = 306 -> "DateTime"
GPSTAGS(tag_id) ==
    CASE tag_id = 1  -> "GPSLatitudeRef"
      [] tag_id = 2  -> "GPSLatitude"
      [] tag_id = 3  -> "GPSLongitudeRef"
      [] tag_id = 4  -> "GPSLongitude"
      [] tag_id = 17 -> "GPSImgDirection"

\* d, m, s = value raises ValueError unless value has exactly three elements
Unpacks(value) == Len(value) = 3

\* float(d) + float(m)/60.0 + float(s)/3600.0, s given in tenths of a second
convert_to_degrees(value) ==
    value[1] * DegUnits + value[2] * (DegUnits \div 60) + value[3] * (DegUnits \div 36000)

\* exif_data[TAGS.get(tag_id, tag_id)] = value for the top-level directory
NamedExif(dir) ==
    [k \in {TAGS(id) : id \in DOMAIN dir} |->
        dir[CHOOSE id \in DOMAIN dir : TAGS(id) = k]]

\* gps_data[GPSTAGS.get(tag_id, tag_id)] = value for the GPS directory
NamedGps(dir) ==
    [k \in {GPSTAGS(id) : id \in DOMAIN dir} |->
        dir[CHOOSE id \in DOMAIN dir : GPSTAGS(id) = k]]

\* dict.get(key) == wanted
GetIs(d, key, wanted) == key \in DOMAIN d /\ d[key] = wanted

ErrorRecord == [k \in {"error"} |-> "exception"]

ApplyRefIgnored(x, gps_data, refKey, negRef) == x
ApplyRef(x, gps_data, refKey, negRef) ==
    IF GetIs(gps_data, refKey, negRef) THEN -x ELSE x

extract_exif_data(img) ==
    IF ~img.readable THEN ErrorRecord
    ELSE
    LET base     == NamedExif(img.exif)
        gps_data == NamedGps(img.gps)
        both     == {"GPSLatitude", "GPSLongitude"} \subseteq DOMAIN gps_data
    IN  IF DOMAIN img.gps = {} THEN base
        ELSE IF ~both THEN base @@ [k \in {"GPSData"} |-> gps_data]
        ELSE IF ~Unpacks(gps_data["GPSLatitude"]) \/ ~Unpacks(gps_data["GPSLongitude"])
        THEN ErrorRecord
        ELSE LET lat == ApplyRef(convert_to_degrees(gps_data["GPSLatitude"]),
                                 gps_data, "GPSLatitudeRef", "S")
                 lon == ApplyRef(convert_to_degrees(gps_data["GPSLongitude"]),
                                 gps_data, "GPSLongitudeRef", "W")
             IN  base @@ [k \in {"GPSLatitude", "GPSLongitude", "GPSData"} |->
                             CASE k = "GPSLatitude"  -> lat
                               [] k = "GPSLongitude" -> lon
                               [] k = "GPSData"      -> gps_data]

-----------------------------------------------------------------------------
(* reverse_geocode: lines 100-135 *)

\* What urlopen + json.loads deliver: the decoded JSON, or an exception
\* (URLError, HTTPError, timeout, JSONDecodeError).
Delivered(net) == net.kind = "json"

reverse_geocode(lat, lon, net) ==
    IF Delivered(net)
    THEN [api_url |-> <<"reverse", lat, lon>>, error |-> None, data |-> Some(net.body)]
    ELSE [api_url |-> <<"reverse", lat, lon>>, error |-> Some(net.kind), data |-> None]

-----------------------------------------------------------------------------
(* search_nearby_poi: lines 138-206 *)

PoiLimit == 15

\* data[:15]
Slice(data, n) == SubSeq(data, 1, IF Len(data) < n THEN Len(data) ELSE n)

\* (lat - item_lat)**2 + (lon - item_lon)**2, in squared angle units
SquaredOffset(lat, lon, item) ==
    (lat - item.lat) * (lat - item.lat) + (lon - item.lon) * (lon - item.lon)

\* distance > 10: sqrt(q) / UnitsPerMetre > 10
FartherThanMetres(q, metres) ==
    q > (metres * UnitsPerMetre) * (metres * UnitsPerMetre)

\* round(distance, 1) in tenths of a metre: sqrt(q) * 10 / UnitsPerMetre rounded
\* to the nearest integer, a tie going to the even neighbour
RoundTenths(q) ==
    LET r2    == ISqrt(100 * q)          \* floor of 10 * sqrt(q)
        down  == r2 \div UnitsPerMetre
        \* compare 10 * sqrt(q) with (down + 1/2) * UnitsPerMetre, squared
        twice == (2 * down + 1) * UnitsPerMetre
        cmp   == 400 * q - twice * twice
    IN  IF cmp > 0 THEN down + 1
        ELSE IF cmp < 0 THEN down
        ELSE IF down % 2 = 0 THEN down ELSE down + 1

\* if distance > 10 and name
KeepsPoiAnyDistance(q, name) == name # ""
KeepsPoi(q, name) == FartherThanMetres(q, 10) /\ name # ""

PoiEntry(lat, lon, item) ==
    [name     |-> item.name,
     distance |-> RoundTenths(SquaredOffset(lat, lon, item)),
     lat      |-> item.lat,
     lon      |-> item.lon]

\* the loop over data[:15], appending the entries that pass the test
RECURSIVE CollectPois(_, _, _)
CollectPois(lat, lon, items) ==
    IF items = <<>> THEN <<>>
    ELSE (IF KeepsPoi(SquaredOffset(lat, lon, Head(items)), Head(items).name)
          THEN <<PoiEntry(lat, lon, Head(items))>> ELSE <<>>)
         \o CollectPois(lat, lon, Tail(items))

Considered(data) == Slice(data, PoiLimit)

\* float(item.get('lat', 0)) and float(item.get('lon', 0)) raise ValueError for
\* an entry whose coordinates are no numbers
Converts(items) == \A i \in 1..Len(items) : items[i].numeric

\* net.kind: "json" with net.body a list of items; "object" for a JSON value that
\* is no list; anything else is an exception raised inside the try block
search_nearby_poi(lat, lon, direction, net) ==
    IF Delivered(net) /\ Converts(Considered(net.body))
    THEN [pois    |-> CollectPois(lat, lon, Considered(net.body)),
          api_url |-> <<"search", lat, lon>>,
          error   |-> None]
    ELSE IF Delivered(net)
    THEN [pois    |-> <<>>,
          api_url |-> <<"search", lat, lon>>,
          error   |-> Some("could not convert string to float")]
    ELSE IF net.kind = "object"
    THEN [pois    |-> <<>>,
          api_url |-> <<"search", lat, lon>>,
          error   |-> Some("Invalid response format")]
    ELSE [pois    |-> <<>>,
          api_url |-> <<"search", lat, lon>>,
          error   |-> Some(net.kind)]

-----------------------------------------------------------------------------
(* query_wikidata_pois: lines 209-292 *)

\* round(x / 10, 0) for x >= 0 in units ten times finer than the result,
\* a tie going to the even neighbour (Python's round)
RoundDiv10(x) ==
    LET down == x \div 10
        rest == x % 10
    IN  IF rest > 5 THEN down + 1
        ELSE IF rest < 5 THEN down
        ELSE IF down % 2 = 0 THEN down ELSE down + 1

\* One parsed binding.  distance is the endpoint's ?distance in units of 0.1 m;
\* distance_km is round(distance, 3) in metres, distance_m is
\* round(distance * 1000, 1) in tenths of a metre.
\* place_uri.split('/')[-1] if place_uri else ""
WikidataId(place_uri) ==
    IF place_uri = <<>> THEN <<>>
    ELSE LET segs == Split(place_uri, <<"/">>) IN segs[Len(segs)]

PlaceOf(result) ==
    [label       |-> result.placeLabel,
     instance_of |-> result.instanceOfLabel,
     distance_km |-> RoundDiv10(result.distance),
     distance_m  |-> result.distance,
     wikidata_id |-> WikidataId(result.place)]

\* places.insert(0, ...) in place of places.append(...)
ParseBindingsReversed(bindings) ==
    [i \in 1..Len(bindings) |-> PlaceOf(bindings[Len(bindings) + 1 - i])]
ParseBindings(bindings) == [i \in 1..Len(bindings) |-> PlaceOf(bindings[i])]

query_wikidata_pois(sparql_available, net) ==
    IF ~sparql_available
    THEN [places |-> <<>>, error |-> Some("SPARQLWrapper not installed")]
    ELSE IF Delivered(net)
    THEN [places |-> ParseBindings(net.body), error |-> None]
    ELSE [places |-> <<>>, error |-> Some(net.kind)]

-----------------------------------------------------------------------------
(* Bounds and the inputs drawn within them *)

MaxParts == 2        \* parts in one multipart body
MaxRequests == 2     \* requests served in one run

FileNames == {<<"a">>, <<"b">>}

\* A part as the client composes it
PartKinds ==
    [kind : {"file"}, fname : FileNames \cup {<<>>}, payload : {<<"x">>}]
    \cup [kind : {"file"}, fname : {<<"b">>}, payload : {<<"y">>, <<>>}]
    \cup [kind : {"field"}, fname : {<<>>}, payload : {<<"v">>, FilenameEq}]
    \cup [kind : {"truncated"}, fname : {<<"a">>}, payload : {<<>>}]

PartBytes(p) ==
    CASE p.kind = "file"      -> FilePart(p.fname, p.payload)
      [] p.kind = "field"     -> FieldPart(p.payload)
      [] p.kind = "truncated" -> TruncatedFilePart(p.fname)

SeqsUpTo(S, n) == UNION {[1..k -> S] : k \in 0..n}

BodyOf(parts) == EncodeMultipart([i \in 1..Len(parts) |-> PartBytes(parts[i])], Boundary)

MultipartType == <<"multipart/form-data">>
BoundaryEq == <<"boundary=">>

\* self.headers['Content-Type']: None when the header is absent
ContentTypes ==
    {None,
     Some(<<"application/json">>),
     Some(MultipartType),
     Some(MultipartType \o <<"; ">> \o BoundaryEq \o Boundary)}

EmptyDir == [k \in {} |-> <<>>]

Paris == <<48, 51, 295>>
Greenwich == <<0, 0, 5>>

CameraDir == [k \in {271} |-> "cam"]

GpsDirs ==
    {EmptyDir,
     [k \in {1, 2} |-> IF k = 1 THEN "N" ELSE Paris],
     [k \in {1, 2, 3, 4} |-> CASE k = 1 -> "N" [] k = 2 -> Paris
                               [] k = 3 -> "E" [] k = 4 -> Greenwich],
     [k \in {1, 2, 3, 4} |-> CASE k = 1 -> "S" [] k = 2 -> Paris
                               [] k = 3 -> "W" [] k = 4 -> Greenwich],
     [k \in {2, 4} |-> IF k = 2 THEN Paris ELSE <<0, 5>>],
     [k \in {2, 4, 17} |-> CASE k = 2 -> Paris [] k = 4 -> Greenwich
                             [] k = 17 -> <<90>>],
     [k \in {2, 4, 17} |-> CASE k = 2 -> Paris [] k = 4 -> Greenwich
                             [] k = 17 -> <<90, 1>>]}

\* What PIL makes of a stored file
Images ==
    {[readable |-> FALSE, exif |-> EmptyDir, gps |-> EmptyDir],
     [readable |-> TRUE, exif |-> EmptyDir, gps |-> EmptyDir]}
    \cup [readable : {TRUE}, exif : {CameraDir}, gps : GpsDirs]

\* Outcomes of the Nominatim calls
GeocodeNets ==
    {[kind |-> "json", body |-> "address"],
     [kind |-> "timeout", body |-> ""]}

Item(name, lat, lon) == [name |-> name, lat |-> lat, lon |-> lon, numeric |-> TRUE]
\* an entry whose lat is no number
BadItem(name) == [name |-> name, lat |-> 0, lon |-> 0, numeric |-> FALSE]

\* What the search answers for a query at (lat, lon): places around the point
PoiNets(lat, lon) ==
    {[kind |-> "json", body |-> <<Item("Cafe", lat + 20 * UnitsPerMetre, lon),
                                  Item("", lat, lon + 20 * UnitsPerMetre)>>],
     [kind |-> "json", body |-> <<Item("Cafe", lat + 20 * UnitsPerMetre, lon),
                                  BadItem("Bar")>>],
     [kind |-> "object", body |-> <<>>],
     [kind |-> "timeout", body |-> <<>>]}

-----------------------------------------------------------------------------
(* The /upload handler: do_POST, lines 755-861 *)

HasGpsData(exif) == "GPSData" \in DOMAIN exif
HasGps(exif) == "GPSLatitude" \in DOMAIN exif /\ "GPSLongitude" \in DOMAIN exif

\* content_type.split("boundary=")[1]
BoundaryParts(content_type) == Split(content_type, BoundaryEq)

\* f"{timestamp}_{filename}"
SafeFilename(now, name) == <<ToString(now), "_">> \o name

\* open(file_path, 'wb').write(image_data): creates or truncates the file
WriteFile(dir, name, data) ==
    {f \in dir : f.name # name} \cup {[name |-> name, data |-> data]}

NoResponse == [success |-> FALSE]

\* self.send_error(400, ...) followed by return
Reply400 ==
    /\ status' = 400
    /\ response' = NoResponse
    /\ pc' = "done"

\* the except clause of the /upload branch: lines 853-861
Reply500 ==
    /\ status' = 500
    /\ response' = NoResponse
    /\ pc' = "done"

NoHistory == [dir0 |-> {}, stages |-> <<>>, kept |-> {}]

\* the stage `name` has run for the current request
Ran(name) == hist' = [hist EXCEPT !.stages = Append(@, name)]

\* A request arrives: its headers are parsed, its body waits on the socket.
\* The clock may have moved on since the last request.
Receive ==
    /\ pc = "idle"
    /\ served < MaxRequests
    /\ \E ct \in ContentTypes, len \in BOOLEAN, dt \in {0, 1} :
          /\ req' = [content_type |-> ct, content_length |-> len, body |-> <<>>]
          /\ clock' = clock + dt
    /\ served' = served + 1
    /\ pc' = "headers"
    /\ hist' = [hist EXCEPT !.dir0 = disk, !.stages = <<>>]
    /\ UNCHANGED <<sent, filename, image_data, status, response, disk, writes,
                   image, exif_data, camera_direction, location_data, poi_data,
                   calls, fin, fout>>

\* lines 758-768: content type test, boundary, Content-Length, reading the body
CheckHeaders ==
    /\ pc = "headers"
    /\ IF ~req.content_type.set
       THEN Reply500 /\ UNCHANGED <<req, sent>>       \* 'x' in None: TypeError
       ELSE IF ~Contains(req.content_type.val, MultipartType)
       THEN Reply400 /\ UNCHANGED <<req, sent>>
       ELSE IF Len(BoundaryParts(req.content_type.val)) < 2
       THEN Reply500 /\ UNCHANGED <<req, sent>>       \* [1]: IndexError
       ELSE IF ~req.content_length
       THEN Reply500 /\ UNCHANGED <<req, sent>>       \* int(None): TypeError
       ELSE /\ \E parts \in SeqsUpTo(PartKinds, MaxParts) :
                  /\ req' = [req EXCEPT !.body = BodyOf(parts)]
                  /\ sent' = parts
            /\ pc' = "decode"
            /\ UNCHANGED <<status, response>>
    /\ UNCHANGED <<filename, image_data, disk, writes, clock, image,
                   exif_data, camera_direction, location_data, poi_data, calls,
                   served, hist, fin, fout>>

\* Decode with the file written as soon as a payload is found, before the
\* missing-file test
DecodeWriting ==
    /\ pc = "decode"
    /\ \E r \in {ParseMultipart(req.body, BoundaryParts(req.content_type.val)[2])} :
           IF r.raised
           THEN /\ Reply500
                /\ UNCHANGED <<filename, image_data, disk, writes>>
           ELSE IF ~Truthy(r.image_data) \/ ~Truthy(r.filename)
           THEN /\ Reply400
                /\ filename' = r.filename
                /\ image_data' = r.image_data
                /\ IF Truthy(r.image_data)
                   THEN /\ disk' = WriteFile(disk, SafeFilename(clock, <<>>),
                                             r.image_data.val)
                        /\ writes' = writes + 1
                   ELSE UNCHANGED <<disk, writes>>
           ELSE /\ filename' = Some(CleanFilename(r.filename.val))
                /\ image_data' = r.image_data
                /\ pc' = "store"
                /\ UNCHANGED <<status, response, disk, writes>>
    /\ Ran("decode")
    /\ UNCHANGED <<req, sent, clock, image, exif_data,
                   camera_direction, location_data, poi_data, calls, served,
                   fin, fout>>

\* lines 770-800: the decoder, the missing-file test, the filename clean-up
Decode ==
    /\ pc = "decode"
    /\ \E r \in {ParseMultipart(req.body, BoundaryParts(req.content_type.val)[2])} :
           IF r.raised
           THEN /\ Reply500
                /\ UNCHANGED <<filename, image_data>>
           ELSE IF ~Truthy(r.image_data) \/ ~Truthy(r.filename)
           THEN /\ Reply400
                /\ filename' = r.filename
                /\ image_data' = r.image_data
           ELSE /\ filename' = Some(CleanFilename(r.filename.val))
                /\ image_data' = r.image_data
                /\ pc' = "store"
                /\ UNCHANGED <<status, response>>
    /\ Ran("decode")
    /\ UNCHANGED <<req, sent, disk, writes, clock, image, exif_data,
                   camera_direction, location_data, poi_data, calls, served,
                   fin, fout>>

\* lines 802-808: the file write; open() or write() may raise OSError.
\* The request body is not looked at again from here on.
Store ==
    /\ pc = "store"
    /\ \E ok \in BOOLEAN :
          IF ok
          THEN /\ disk' = WriteFile(disk, SafeFilename(clock, filename.val), image_data.val)
               /\ writes' = writes + 1
               /\ pc' = "extract"
               /\ UNCHANGED <<status, response>>
          ELSE /\ Reply500
               /\ UNCHANGED <<disk, writes>>
    /\ req' = [req EXCEPT !.body = <<>>]
    /\ sent' = <<>>
    /\ Ran("write")
    /\ UNCHANGED <<filename, image_data, clock, image, exif_data,
                   camera_direction, location_data, poi_data, calls, served,
                   fin, fout>>

\* Extract with the extractor's exception left to propagate to do_POST
ExtractPropagating ==
    /\ pc = "extract"
    /\ \E img \in Images :
          /\ image' = img
          /\ IF DOMAIN extract_exif_data(img) = {"error"}
             THEN /\ Reply500
                  /\ UNCHANGED exif_data
             ELSE /\ exif_data' = extract_exif_data(img)
                  /\ pc' = "gate"
                  /\ UNCHANGED <<status, response>>
    /\ Ran("extract")
    /\ UNCHANGED <<req, sent, filename, image_data, disk, writes,
                   clock, camera_direction, location_data, poi_data, calls,
                   served, fin, fout>>

\* line 811
Extract ==
    /\ pc = "extract"
    /\ \E img \in Images :
          /\ image' = img
          /\ exif_data' = extract_exif_data(img)
    /\ pc' = "gate"
    /\ Ran("extract")
    /\ UNCHANGED <<req, sent, filename, image_data, status, response, disk, writes,
                   clock, camera_direction, location_data, poi_data, calls,
                   served, fin, fout>>

\* float(x) of a tag value: a rational converts, a tuple of several raises
Floats(value) == Len(value) = 1

\* Gate with the POI search called first and reverse geocoding left out
GateSkippingGeocode ==
    /\ pc = "gate"
    /\ IF ~HasGps(exif_data)
       THEN /\ pc' = "respond"
            /\ UNCHANGED <<camera_direction, status, response>>
       ELSE IF "GPSData" \in DOMAIN exif_data
               /\ "GPSImgDirection" \in DOMAIN exif_data["GPSData"]
       THEN IF Floats(exif_data["GPSData"]["GPSImgDirection"])
            THEN /\ camera_direction' = Some(exif_data["GPSData"]["GPSImgDirection"][1])
                 /\ pc' = "poi"
                 /\ UNCHANGED <<status, response>>
            ELSE /\ Reply500
                 /\ UNCHANGED camera_direction
       ELSE /\ pc' = "poi"
            /\ UNCHANGED <<camera_direction, status, response>>
    /\ UNCHANGED <<req, sent, filename, image_data, disk, writes, clock, image,
                   exif_data, location_data, poi_data, calls, served, hist, fin, fout>>

\* lines 814-823: the GPS test and the camera direction
Gate ==
    /\ pc = "gate"
    /\ IF ~HasGps(exif_data)
       THEN /\ pc' = "respond"
            /\ UNCHANGED <<camera_direction, status, response>>
       ELSE IF "GPSData" \in DOMAIN exif_data
               /\ "GPSImgDirection" \in DOMAIN exif_data["GPSData"]
       THEN IF Floats(exif_data["GPSData"]["GPSImgDirection"])
            THEN /\ camera_direction' = Some(exif_data["GPSData"]["GPSImgDirection"][1])
                 /\ pc' = "geocode"
                 /\ UNCHANGED <<status, response>>
            ELSE /\ Reply500
                 /\ UNCHANGED camera_direction
       ELSE /\ pc' = "geocode"
            /\ UNCHANGED <<camera_direction, status, response>>
    /\ UNCHANGED <<req, sent, filename, image_data, disk, writes, clock, image,
                   exif_data, location_data, poi_data, calls, served, hist, fin, fout>>

\* Geocode with the client's exception left to propagate to do_POST
GeocodePropagating ==
    /\ pc = "geocode"
    /\ \E net \in GeocodeNets :
          /\ calls' = Append(calls, [fn |-> "reverse_geocode", net |-> net])
          /\ IF Delivered(net)
             THEN /\ location_data' = Some(reverse_geocode(exif_data["GPSLatitude"],
                                                           exif_data["GPSLongitude"], net))
                  /\ pc' = "poi"
                  /\ UNCHANGED <<status, response>>
             ELSE /\ Reply500
                  /\ UNCHANGED location_data
    /\ Ran("reverse_geocode")
    /\ UNCHANGED <<req, sent, filename, image_data, disk, writes,
                   clock, image, exif_data, camera_direction, poi_data, served,
                   fin, fout>>

\* Geocode with a failed call tried a second time
GeocodeRetrying ==
    /\ pc = "geocode"
    /\ \E net \in GeocodeNets, again \in GeocodeNets :
          IF Delivered(net)
          THEN /\ location_data' = Some(reverse_geocode(exif_data["GPSLatitude"],
                                                        exif_data["GPSLongitude"], net))
               /\ calls' = Append(calls, [fn |-> "reverse_geocode", net |-> net])
          ELSE /\ location_data' = Some(reverse_geocode(exif_data["GPSLatitude"],
                                                        exif_data["GPSLongitude"], again))
               /\ calls' = calls \o <<[fn |-> "reverse_geocode", net |-> net],
                                      [fn |-> "reverse_geocode", net |-> again]>>
    /\ pc' = "poi"
    /\ Ran("reverse_geocode")
    /\ UNCHANGED <<req, sent, filename, image_data, status, response, disk, writes,
                   clock, image, exif_data, camera_direction, poi_data, served,
                   fin, fout>>

\* lines 825-828
Geocode ==
    /\ pc = "geocode"
    /\ \E net \in GeocodeNets :
          /\ location_data' = Some(reverse_geocode(exif_data["GPSLatitude"],
                                                   exif_data["GPSLongitude"], net))
          /\ calls' = Append(calls, [fn |-> "reverse_geocode", net |-> net])
    /\ pc' = "poi"
    /\ Ran("reverse_geocode")
    /\ UNCHANGED <<req, sent, filename, image_data, status, response, disk, writes,
                   clock, image, exif_data, camera_direction, poi_data, served,
                   fin, fout>>

\* lines 829-833
Poi ==
    /\ pc = "poi"
    /\ \E net \in PoiNets(exif_data["GPSLatitude"], exif_data["GPSLongitude"]) :
          /\ poi_data' = Some(search_nearby_poi(exif_data["GPSLatitude"],
                                                exif_data["GPSLongitude"],
                                                camera_direction, net))
          /\ calls' = Append(calls, [fn |-> "search_nearby_poi", net |-> net])
    /\ pc' = "respond"
    /\ Ran("search_nearby_poi")
    /\ UNCHANGED <<req, sent, filename, image_data, status, response, disk, writes,
                   clock, image, exif_data, camera_direction, location_data,
                   served, fin, fout>>

\* lines 835-851
Respond ==
    /\ pc = "respond"
    /\ response' = [success          |-> TRUE,
                    filename         |-> SafeFilename(clock, filename.val),
                    exif             |-> exif_data,
                    location         |-> location_data,
                    pois             |-> poi_data,
                    camera_direction |-> camera_direction]
    /\ status' = 200
    /\ pc' = "done"
    /\ UNCHANGED <<req, sent, filename, image_data, disk, writes, clock, image,
                   exif_data, camera_direction, location_data, poi_data, calls,
                   served, hist, fin, fout>>

NoRequest == [content_type |-> None, content_length |-> FALSE, body |-> <<>>]
NoImage == [readable |-> FALSE, exif |-> EmptyDir, gps |-> EmptyDir]

\* do_POST returns: its locals are gone, the upload directory stays
Return ==
    /\ pc = "done"
    /\ pc' = "idle"
    /\ req' = NoRequest
    /\ sent' = <<>>
    /\ filename' = None
    /\ image_data' = None
    /\ status' = 0
    /\ response' = NoResponse
    /\ writes' = 0
    /\ calls' = <<>>
    /\ image' = NoImage
    /\ exif_data' = EmptyDir
    /\ camera_direction' = None
    /\ location_data' = None
    /\ poi_data' = None
    /\ hist' = [hist EXCEPT !.dir0 = disk,
                            !.stages = <<>>,
                            !.kept = IF status = 200 /\ writes > 0
                                     THEN @ \cup {SafeFilename(clock, filename.val)}
                                     ELSE @]
    /\ UNCHANGED <<disk, clock, served, fin, fout>>

Init ==
    /\ pc = "idle"
    /\ req = NoRequest
    /\ sent = <<>>
    /\ filename = None
    /\ image_data = None
    /\ status = 0
    /\ response = NoResponse
    /\ disk = {}
    /\ writes = 0
    /\ clock = 0
    /\ image = NoImage
    /\ exif_data = EmptyDir
    /\ camera_direction = None
    /\ location_data = None
    /\ poi_data = None
    /\ calls = <<>>
    /\ served = 0
    /\ hist = NoHistory
    /\ fin = <<>>
    /\ fout = None

Next ==
    \/ Receive
    \/ CheckHeaders
    \/ Decode
    \/ Store
    \/ Extract
    \/ Gate
    \/ Geocode
    \/ Poi
    \/ Respond
    \/ Return

Spec == Init /\ [][Next]_vars

-----------------------------------------------------------------------------
(* Properties of the /upload handler, checked under Spec *)

Answered == pc = "done"
Stored == writes > 0
LacksGps == ~({"GPSLatitude", "GPSLongitude"} \subseteq DOMAIN exif_data)

\* C1: once the uploaded file is stored, the request is answered with HTTP 200
\* and success = true, whatever extraction, the camera bearing, reverse
\* geocoding and the POI search do; it is never answered with a 500.
C1_StoredUploadAnswers200 ==
    (Answered /\ Stored) => (status = 200 /\ response.success)

\* C2: when the extracted metadata lacks GPSLatitude or GPSLongitude (also when
\* extraction failed), the handler never reaches a geo call site, no outbound
\* call is made, and the response carries location = null and pois = null.
C2_NoGpsNoEnrichment ==
    (Stored /\ LacksGps) =>
        /\ pc \notin {"geocode", "poi"}
        /\ calls = <<>>
        /\ Answered => /\ status = 200
                       /\ response.success
                       /\ ~response.location.set
                       /\ ~response.pois.set

\* C2 witness: a stored upload whose GPS directory holds a latitude but no
\* longitude has been answered.
C2_Witness ==
    /\ Answered /\ Stored /\ status = 200
    /\ image.readable
    /\ DOMAIN image.gps # {}
    /\ LacksGps

GeocodeMarked(loc, net) ==
    IF net.kind = "json"
    THEN loc.data.set /\ loc.data.val = net.body /\ ~loc.error.set
    ELSE ~loc.data.set /\ loc.error.set /\ loc.error.val # ""

PoiMarked(res, net) ==
    IF net.kind = "json" /\ \A i \in 1..Len(net.body) : net.body[i].numeric
    THEN /\ ~res.error.set
         /\ \A j \in 1..Len(res.pois) :
               \E i \in 1..Len(net.body) :
                  /\ res.pois[j].name = net.body[i].name
                  /\ res.pois[j].lat = net.body[i].lat
                  /\ res.pois[j].lon = net.body[i].lon
         /\ \A i \in 1..Len(net.body) :
               net.body[i].name # "" =>
                  \E j \in 1..Len(res.pois) : res.pois[j].name = net.body[i].name
    ELSE res.pois = <<>> /\ res.error.set /\ res.error.val # ""

\* C3: once the first geo call has been made, both calls are made, in order,
\* whatever either delivers, the request is answered with a 200, and the
\* response carries for each call its result when it succeeded and its error
\* marker (data = null or pois empty, with the error text) when it failed.
C3_GeoCallsIsolated ==
    /\ pc = "poi" => Len(calls) = 1
    /\ (Answered /\ calls # <<>>) =>
          /\ Len(calls) = 2
          /\ calls[1].fn = "reverse_geocode"
          /\ calls[2].fn = "search_nearby_poi"
          /\ status = 200
          /\ response.location.set
          /\ response.pois.set
          /\ GeocodeMarked(response.location.val, calls[1].net)
          /\ PoiMarked(response.pois.val, calls[2].net)

\* C3 witness: reverse geocoding timed out, the POI search delivered places,
\* and the answer carries the places.
C3_Witness ==
    /\ Answered /\ Len(calls) = 2
    /\ calls[1].net.kind = "timeout"
    /\ calls[2].net.kind = "json"
    /\ Len(response.pois.val.pois) > 0

DeclaresFilename(p) == p.kind \in {"file", "truncated"}
FileBearing(parts) == {i \in 1..Len(parts) : DeclaresFilename(parts[i])}

WellFormedFile(p) == p.kind = "file" /\ p.fname # <<>> /\ p.payload # <<>>

\* C4: when more than one part of the body declares filename= (each of them a
\* well-formed file part), the decoder keeps the filename and the payload of
\* the first such part.
C4_FirstFilePartKept ==
    (/\ pc = "store"
     /\ Cardinality(FileBearing(sent)) > 1
     /\ \A i \in FileBearing(sent) : WellFormedFile(sent[i])) =>
        LET first == sent[Min(FileBearing(sent))]
        IN  /\ filename.val = first.fname
            /\ image_data.val = first.payload

NoUsableFile(parts) == \A i \in 1..Len(parts) : ~WellFormedFile(parts[i])

\* C5: a multipart upload with no file-bearing part, or whose file parts are
\* malformed (empty filename, empty content, no blank line after the header
\* block), is answered with a 400.
C5_MalformedUploadIs400 ==
    [][(Decode /\ NoUsableFile(sent)) => status' = 400]_vars

IsMultipartWithBoundary(ct) ==
    /\ ct.set
    /\ Contains(ct.val, MultipartType)
    /\ Contains(ct.val, BoundaryEq)

\* C6: a request whose Content-Type is absent, is not multipart/form-data, or
\* names no boundary, is answered with a 400 before the body is read: nothing is
\* parsed, nothing is written, no call is made.
C6_NonMultipartIs400 ==
    [][(CheckHeaders /\ ~IsMultipartWithBoundary(req.content_type)) =>
          /\ status' = 400
          /\ pc' = "done"
          /\ UNCHANGED <<req, sent, filename, image_data, disk, writes, calls>>]_vars

-----------------------------------------------------------------------------
(* The decoder on the encoding of one file: SpecMultipart *)

MaxNameLen == 2
MaxPayloadLen == 4

NameBytes == {"a", DQ, SQ, SP, LF}
PayloadBytes == {CR, LF, "-", "B"}

FullContentType == Some(MultipartType \o <<"; ">> \o BoundaryEq \o Boundary)

\* The client encodes fin as the only part of a body and posts it.
SendFile ==
    /\ pc = "idle"
    /\ served = 0
    /\ req' = [content_type   |-> FullContentType,
               content_length |-> TRUE,
               body |-> EncodeMultipart(<<FilePart(fin.fname, fin.payload)>>, Boundary)]
    /\ sent' = <<[kind |-> "file", fname |-> fin.fname, payload |-> fin.payload]>>
    /\ served' = 1
    /\ pc' = "decode"
    /\ UNCHANGED <<filename, image_data, status, response, disk, writes, clock,
                   image, exif_data, camera_direction, location_data, poi_data,
                   calls, hist, fin, fout>>

InitRest ==
    /\ pc = "idle"
    /\ req = NoRequest
    /\ sent = <<>>
    /\ filename = None
    /\ image_data = None
    /\ status = 0
    /\ response = NoResponse
    /\ disk = {}
    /\ writes = 0
    /\ clock = 0
    /\ image = NoImage
    /\ exif_data = EmptyDir
    /\ camera_direction = None
    /\ location_data = None
    /\ poi_data = None
    /\ calls = <<>>
    /\ served = 0
    /\ hist = NoHistory
    /\ fout = None

InitMultipart ==
    /\ fin \in [fname : SeqsUpTo(NameBytes, MaxNameLen),
                payload : SeqsUpTo(PayloadBytes, MaxPayloadLen)]
    /\ InitRest

NextMultipart ==
    \/ SendFile
    \/ Decode

SpecMultipart == InitMultipart /\ [][NextMultipart]_vars

Unquoted(name) == Remove(name, {DQ, SQ})

\* A filename the round trip is claimed for: something is left once the quotes
\* are taken out, that rest neither starts nor ends with whitespace, and the
\* name holds no line break.
PlainName(name) ==
    /\ Unquoted(name) # <<>>
    /\ Head(Unquoted(name)) \notin Whitespace
    /\ Unquoted(name)[Len(Unquoted(name))] \notin Whitespace
    /\ \A i \in 1..Len(name) : name[i] \notin {CR, LF}

FreeOfDelimiter(payload) == ~Contains(payload, Dashes \o Boundary)

Decoded == pc \notin {"idle", "decode"}

RoundTrips ==
    /\ pc = "store"
    /\ filename.set /\ filename.val = Unquoted(fin.fname)
    /\ image_data.set /\ image_data.val = fin.payload

\* C7 as claimed: for every filename and every payload, the empty payload
\* included, that a client can frame with the boundary, decoding the encoded
\* body yields the filename without its quotes and exactly the payload.
C7_RoundTripAnyPayload ==
    (Decoded /\ PlainName(fin.fname) /\ FreeOfDelimiter(fin.payload)) => RoundTrips

\* C7 amended: the round trip holds for every such filename and every
\* NON-EMPTY payload free of the delimiter, payloads holding CRLF or CRLFCRLF
\* included; the encoding of an empty payload is answered with a 400.
C7_RoundTripNonEmptyPayload ==
    (Decoded /\ PlainName(fin.fname) /\ FreeOfDelimiter(fin.payload)) =>
        IF fin.payload # <<>> THEN RoundTrips ELSE pc = "done" /\ status = 400

\* C7 witness: a payload holding CRLFCRLF and ending in CRLF came back intact
\* under a quoted filename.
C7_Witness ==
    /\ RoundTrips
    /\ fin.payload = CRLFCRLF
    /\ fin.fname = <<DQ, "a">>

-----------------------------------------------------------------------------
(* GPS conversion: SpecGps *)

Triplets == {<<d, m, s>> : d \in {0, 48, 179}, m \in {0, 59}, s \in {0, 295}}
LatRefs == {"absent", "N", "S", "W"}
LonRefs == {"absent", "E", "W", "S"}

\* The GPS directory PIL reads for an input: tags 2 and 4 hold the triplets,
\* tags 1 and 3 the references when present.
GpsDirOf(in) ==
    [k \in {2, 4} \cup (IF in.latRef = "absent" THEN {} ELSE {1})
                  \cup (IF in.lonRef = "absent" THEN {} ELSE {3}) |->
        CASE k = 1 -> in.latRef
          [] k = 2 -> in.lat
          [] k = 3 -> in.lonRef
          [] k = 4 -> in.lon]

InitGps ==
    /\ fin \in [lat : Triplets, latRef : LatRefs, lon : Triplets, lonRef : LonRefs]
    /\ InitRest

RunExtract ==
    /\ ~fout.set
    /\ fout' = Some(extract_exif_data([readable |-> TRUE, exif |-> CameraDir,
                                       gps |-> GpsDirOf(fin)]))
    /\ UNCHANGED <<handlerVars, fin>>

SpecGps == InitGps /\ [][RunExtract]_vars

\* d + m/60 + s/3600 in tenths of an arc second
TenthsOfArcSecond(t) == t[1] * 36000 + t[2] * 600 + t[3]

\* C8: the extractor's top-level GPSLatitude / GPSLongitude is d + m/60 + s/3600,
\* negated exactly when the latitude reference is S, respectively the longitude
\* reference is W; any other or missing reference leaves it non-negated.
C8_SignedDecimalDegrees ==
    fout.set =>
        LET e   == fout.val
            lat == TenthsOfArcSecond(fin.lat) * (DegUnits \div 36000)
            lon == TenthsOfArcSecond(fin.lon) * (DegUnits \div 36000)
        IN  /\ {"GPSLatitude", "GPSLongitude"} \subseteq DOMAIN e
            /\ e["GPSLatitude"] = (IF fin.latRef = "S" THEN -lat ELSE lat)
            /\ e["GPSLongitude"] = (IF fin.lonRef = "W" THEN -lon ELSE lon)

\* C8 witness: 48 deg 59 min 29.5 s south, a western longitude, both negated.
C8_Witness ==
    /\ fout.set
    /\ fin.lat = <<48, 59, 295>> /\ fin.latRef = "S" /\ fin.lonRef = "W"
    /\ fin.lon = <<179, 0, 295>>
    /\ fout.val["GPSLatitude"] < 0
    /\ fout.val["GPSLongitude"] < 0

-----------------------------------------------------------------------------
(* POI filtering: SpecPoi *)

MaxFill == 15        \* leading repetitions of one item in the provider's list
MaxTail == 2         \* items that follow them

FixLat == convert_to_degrees(Paris)
FixLon == convert_to_degrees(Greenwich)

\* Offsets from the fix, in angle units: 0 m, 10 m along one axis and across
\* both, just over 10 m, 10.25 m, 20 m
Offsets == {<<0, 0>>, <<360, 0>>, <<216, 288>>, <<361, 0>>, <<0, 369>>, <<720, 0>>}

PoiItems ==
    {Item(n, FixLat + o[1], FixLon + o[2]) : n \in {"", "Cafe"}, o \in Offsets}
    \cup {BadItem("Cafe")}
Fillers == {Item("Bar", FixLat + 720, FixLon - 720), Item("", FixLat + 720, FixLon)}

ProviderList(in) == [i \in 1..in.pre |-> in.filler] \o in.tail

InitPoi ==
    /\ fin \in [pre : 0..MaxFill, filler : Fillers, tail : SeqsUpTo(PoiItems, MaxTail)]
    /\ InitRest

RunSearch ==
    /\ ~fout.set
    /\ fout' = Some(search_nearby_poi(FixLat, FixLon, None,
                                      [kind |-> "json", body |-> ProviderList(fin)]))
    /\ UNCHANGED <<handlerVars, fin>>

SpecPoi == InitPoi /\ [][RunSearch]_vars

\* squared distance of a place from the fix, in squared angle units
Sq(lat, lon) == (FixLat - lat) * (FixLat - lat) + (FixLon - lon) * (FixLon - lon)

\* more than 10 m away: 36 angle units are one metre
BeyondTenMetres(lat, lon) == Sq(lat, lon) > 360 * 360

Qualifies(item) ==
    item.numeric /\ BeyondTenMetres(item.lat, item.lon) /\ item.name # ""

\* every one of the first `upto` entries has numeric coordinates
WellFormedUpTo(upto) ==
    \A i \in 1..Len(ProviderList(fin)) : i <= upto => ProviderList(fin)[i].numeric

\* tenths is within half a tenth of a metre of the distance sqrt(q) / 36 m
IsRounded(tenths, q) ==
    /\ tenths >= 0
    /\ (2 * tenths - 1) * (2 * tenths - 1) * 1296 <= 400 * q
    /\ 400 * q <= (2 * tenths + 1) * (2 * tenths + 1) * 1296

Shows(e, item) ==
    /\ e.name = item.name
    /\ e.lat = item.lat
    /\ e.lon = item.lon
    /\ IsRounded(e.distance, Sq(item.lat, item.lon))

\* No returned entry is within 10 m or nameless, and every candidate among
\* the first `upto` of the list that qualifies is returned.
FiltersUpTo(upto) ==
    LET data == ProviderList(fin)
        pois == fout.val.pois
        seen == {i \in 1..Len(data) : i <= upto}
    IN  /\ \A j \in 1..Len(pois) :
              /\ pois[j].name # ""
              /\ BeyondTenMetres(pois[j].lat, pois[j].lon)
              /\ \E i \in 1..Len(data) : data[i].numeric /\ Shows(pois[j], data[i])
        /\ \A i \in seen :
              Qualifies(data[i]) => \E j \in 1..Len(pois) : Shows(pois[j], data[i])
        /\ Len(pois) >= Cardinality({i \in seen : Qualifies(data[i])})

\* C9 as claimed: for a list of well-formed entries, a candidate within 10 m or
\* without a name never appears, and every named candidate beyond 10 m appears
\* with its distance rounded to one decimal, wherever it stands in the list.
C9_FilterAnyPosition ==
    (fout.set /\ WellFormedUpTo(Len(ProviderList(fin)))) =>
        FiltersUpTo(Len(ProviderList(fin)))

\* C9 amended: the same, for the candidates among the first 15 entries of the
\* provider's list when these are well formed; later entries are never
\* returned.  One malformed entry among the first 15 empties the result.
C9_FilterFirstFifteen ==
    fout.set =>
        IF WellFormedUpTo(PoiLimit)
        THEN /\ FiltersUpTo(PoiLimit)
             /\ ~fout.val.error.set
             /\ Len(fout.val.pois) =
                   Cardinality({i \in 1..Len(ProviderList(fin)) :
                                   i <= PoiLimit /\ Qualifies(ProviderList(fin)[i])})
        ELSE fout.val.pois = <<>> /\ fout.val.error.set

\* C9 witness: the 15th entry, 10.03 m away and named, is returned as 10.0 m
\* after 14 nameless ones; the 16th, at exactly 10 m, is not.
C9_Witness ==
    /\ fout.set
    /\ fin.pre = 14
    /\ fin.filler.name = ""
    /\ fin.tail = <<Item("Cafe", FixLat + 361, FixLon), Item("Cafe", FixLat + 360, FixLon)>>
    /\ Len(fout.val.pois) = 1
    /\ fout.val.pois[1].distance = 100

-----------------------------------------------------------------------------
(* Wikidata places: SpecWiki *)

MaxBindings == 3

EntityUri(id) == <<"http:", "/", "/", "www.wikidata.org", "/", "entity", "/", id>>

\* ?distance values in units of 0.1 m
Distances == {0, 4, 5, 15, 25, 26}

Bindings ==
    {[place |-> EntityUri("Q64"), placeLabel |-> "Berlin", instanceOfLabel |-> t,
      distance |-> d] : t \in {"city", "capital"}, d \in Distances}

\* OPTIONAL { ?place wdt:P31 ?instanceOf }: one row per type of a place.
\* ORDER BY ?distance: the endpoint delivers the rows by ascending distance
Ordered(rows) == \A i \in 1..Len(rows) - 1 : rows[i].distance <= rows[i + 1].distance

InitWiki ==
    /\ fin \in [available : BOOLEAN,
                kind : {"json", "timeout"},
                rows : {r \in SeqsUpTo(Bindings, MaxBindings) : Ordered(r)}]
    /\ InitRest

RunQuery ==
    /\ ~fout.set
    /\ fout' = Some(query_wikidata_pois(fin.available,
                                        [kind |-> fin.kind, body |-> fin.rows]))
    /\ UNCHANGED <<handlerVars, fin>>

SpecWiki == InitWiki /\ [][RunQuery]_vars

\* C10 as claimed: each place's distance_km is strictly smaller than that of
\* the place after it.
C10_StrictlyAscending ==
    fout.set =>
        \A i \in 1..Len(fout.val.places) - 1 :
            fout.val.places[i].distance_km < fout.val.places[i + 1].distance_km

\* C10 amended: the places are in the endpoint's order, so no place's
\* distance_km is larger than that of the place after it; equal values occur.
C10_Ascending ==
    fout.set =>
        /\ \A i \in 1..Len(fout.val.places) - 1 :
              fout.val.places[i].distance_km <= fout.val.places[i + 1].distance_km
        /\ (fin.available /\ fin.kind = "json") =>
              /\ Len(fout.val.places) = Len(fin.rows)
              /\ \A i \in 1..Len(fin.rows) :
                    fout.val.places[i].distance_m = fin.rows[i].distance

\* C10 witness: three rows at 0.4 m, 1.5 m and 2.6 m come back as 0 m, 2 m
\* and 3 m.
C10_Witness ==
    /\ fout.set
    /\ Len(fout.val.places) = 3
    /\ fout.val.places[1].distance_km = 0
    /\ fout.val.places[2].distance_km = 2
    /\ fout.val.places[3].distance_km = 3

-----------------------------------------------------------------------------
(* Storage, extraction failures and stage order of the /upload handler,    *)
(* checked under Spec                                                      *)

StoredPath == SafeFilename(clock, filename.val)

\* C13: no two uploads answered with a 200 are written to the same path, also
\* when both carry the same original filename and arrive within one clock
\* second: the path of a stored upload is none an earlier upload was kept at.
C13_StoredPathsUnique ==
    (Answered /\ status = 200 /\ Stored) => StoredPath \notin hist.kept

\* An image extract_exif_data fails on: PIL cannot open it, or one of the two
\* coordinates is no degrees/minutes/seconds triplet.
ExtractionFails(img) ==
    \/ ~img.readable
    \/ /\ {2, 4} \subseteq DOMAIN img.gps
       /\ \E k \in {2, 4} : Len(img.gps[k]) # 3

Extracted == \E i \in 1..Len(hist.stages) : hist.stages[i] = "extract"

\* C14: when opening the image or converting its GPS values fails, the
\* extractor returns a record holding the error field only, the request goes
\* on without any geo call, and it is answered with a 200 that carries that
\* record and location = null, pois = null.
C14_ExtractionFailureIsolated ==
    (Extracted /\ ExtractionFails(image)) =>
        /\ pc \in {"gate", "respond", "done"}
        /\ pc # "done" => status = 0 /\ DOMAIN exif_data = {"error"}
        /\ calls = <<>>
        /\ Answered => /\ status = 200
                       /\ response.success
                       /\ DOMAIN response.exif = {"error"}
                       /\ ~response.location.set
                       /\ ~response.pois.set

\* C14 witness: an upload whose GPS longitude holds two values instead of
\* three has been answered.
C14_Witness ==
    /\ Answered /\ status = 200
    /\ image.readable
    /\ ExtractionFails(image)
    /\ DOMAIN response.exif = {"error"}

IsPrefix(s, t) == Len(s) <= Len(t) /\ SubSeq(t, 1, Len(s)) = s

UploadStages ==
    <<"decode", "write", "extract", "reverse_geocode", "search_nearby_poi">>

C16_WriteOnceAnd400LeavesDir ==
    /\ writes <= 1
    /\ Cardinality({i \in 1..Len(hist.stages) : hist.stages[i] = "write"}) <= 1
    /\ pc # "idle" => Cardinality(disk \ hist.dir0) <= 1
    /\ (Answered /\ status = 400) => (writes = 0 /\ disk = hist.dir0)

\* C16 witness: with a file already in the upload directory, a multipart
\* request that carries a payload but an empty filename has been answered 400.
C16_Witness ==
    /\ Answered /\ status = 400
    /\ hist.dir0 # {}
    /\ Truthy(image_data)
    /\ ~Truthy(filename)

-----------------------------------------------------------------------------
(* Range of the extracted coordinates, checked under SpecGps *)

Abs(x) == IF x < 0 THEN -x ELSE x

\* C18: every latitude the extractor produces lies in [-90, 90] and every
\* longitude in [-180, 180], whatever degrees/minutes/seconds triplets the GPS
\* directory holds.
C18_CoordinatesInRange ==
    (fout.set /\ HasGps(fout.val)) =>
        /\ Abs(fout.val["GPSLatitude"]) <= 90 * DegUnits
        /\ Abs(fout.val["GPSLongitude"]) <= 180 * DegUnits

-----------------------------------------------------------------------------
(* The chat endpoint and the three functions that call it: lines 295-552 *)

OLLAMA_MODEL == "qwen3-vl:8b"
OLLAMA_TRANSLATION_MODEL == "gemma3:12b-it-qat"

\* What urlopen(req) and json.loads(response.read().decode()) deliver.
\*   kind "json": a JSON value, net.body its shape and net.text the string under
\*     message.content when there is one;
\*   kind "urlerror": urllib.error.URLError or HTTPError (connection refused,
\*     time-out while connecting, HTTP status >= 400);
\*   any other kind: another exception (time-out while reading, invalid JSON),
\*     net.kind being str(e).
\* Shapes of a JSON value:
\*   "content"       {"message": {"content": "<text>"}}
\*   "no_content"    {"message": {}}
\*   "no_message"    {}
\*   "null_content"  {"message": {"content": null}}
\*   "null_message"  {"message": null}
ChatRaises(net) ==
    \/ net.kind # "json"
    \/ net.body = "null_message"     \* 'content' in None: TypeError
    \/ net.body = "null_content"     \* None.strip(): AttributeError

\* 'message' in result and 'content' in result['message']
HasContent(net) == net.kind = "json" /\ net.body = "content"

\* str(e) of the exception the call raises
ChatError(net) ==
    CASE net.kind # "json"           -> net.kind
      [] net.body = "null_message"   -> "argument of type 'NoneType' is not iterable"
      [] net.body = "null_content"   -> "'NoneType' object has no attribute 'strip'"
      [] OTHER                       -> ""

Lower(c) == IF c = "A" THEN "a" ELSE c

\* s.lower()
LowerCase(s) == [i \in 1..Len(s) |-> Lower(s[i])]

\* s.replace(old, new) for single characters
Translate(s, old, new) == [i \in 1..Len(s) |-> IF s[i] = old THEN new ELSE s[i]]

RECURSIVE Concat(_)
Concat(pieces) ==
    IF pieces = <<>> THEN <<>> ELSE Head(pieces) \o Concat(Tail(pieces))

\* s.replace(sub, ''): the occurrences found from the left, none overlapping
Delete(s, sub) == Concat(Split(s, sub))

\* s.split(): the maximal runs of characters that are no whitespace
RECURSIVE Fields(_)
Fields(s) ==
    LET t == Strip(s, Whitespace)
        ws == {i \in 1..Len(t) : t[i] \in Whitespace}
    IN  IF t = <<>> THEN <<>>
        ELSE IF ws = {} THEN <<t>>
        ELSE <<SubSeq(t, 1, Min(ws) - 1)>> \o Fields(SubSeq(t, Min(ws), Len(t)))

\* ' '.join(words)
RECURSIVE JoinWords(_)
JoinWords(words) ==
    IF words = <<>> THEN <<>>
    ELSE IF Len(words) = 1 THEN words[1]
    ELSE words[1] \o <<SP>> \o JoinWords(Tail(words))

EndOfTurnTail == <<"end_of_turn", ">">>          \* 'end_of_turn>'
EndOfTurn == <<"<", "end_of_turn", ">">>         \* '<end_of_turn>'
EndOfSeq == <<"<", "/", "s", ">">>               \* '</s>'
StartOfSeq == <<"<", "s", ">">>                  \* '<s>'
QuotesAndPunctuation == {DQ, SQ, ".", ",", "!", "?"}

\* lines 521-533: the clean-up of the model's answer
CleanBase(content) ==
    LET stripped  == Strip(content, Whitespace)
        lowered   == LowerCase(stripped)
        spaced    == Translate(lowered, "-", SP)
        unquoted  == Strip(spaced, QuotesAndPunctuation)
        d1        == Delete(unquoted, EndOfTurnTail)
        d2        == Delete(d1, EndOfTurn)
        d3        == Delete(d2, EndOfSeq)
        d4        == Delete(d3, StartOfSeq)
    IN  JoinWords(Fields(d4))

\* lines 482-485; date_str.split()[0] raises IndexError when date_str holds
\* whitespace only
DatePartRaises(date_str) ==
    Truthy(date_str) /\ SP \in {date_str.val[i] : i \in 1..Len(date_str.val)}
                     /\ Fields(date_str.val) = <<>>

DatePart(date_str) ==
    IF ~Truthy(date_str) THEN <<>>
    ELSE IF SP \in {date_str.val[i] : i \in 1..Len(date_str.val)}
    THEN Fields(date_str.val)[1]
    ELSE date_str.val

\* lines 536-544
ComposeFilename(filename_base, date_part) ==
    IF filename_base # <<>> /\ date_part # <<>>
    THEN filename_base \o <<SP>> \o date_part \o <<".jpg">>
    ELSE IF filename_base # <<>> THEN filename_base \o <<".jpg">>
    ELSE IF date_part # <<>> THEN <<"image", SP>> \o date_part \o <<".jpg">>
    ELSE <<"image.jpg">>

\* location_data and location_data.get('data') ... addr.get(...): a location
\* that is no JSON object raises AttributeError
LocationRaises(loc) == loc.set /\ loc.val.kind = "text"

\* city or town or village; country
LocationParts(loc) ==
    IF ~loc.set \/ ~loc.val.data THEN <<>>
    ELSE (IF loc.val.city # "" THEN <<loc.val.city>> ELSE <<>>)
         \o (IF loc.val.country # "" THEN <<loc.val.country>> ELSE <<>>)

\* suggest_filename: lines 462-552.  The result is None when anything raised.
suggest_filename(description, date_str, loc, net) ==
    IF \/ LocationRaises(loc)
       \/ DatePartRaises(date_str)
       \/ ChatRaises(net)
    THEN None
    ELSE Some(ComposeFilename(IF HasContent(net) THEN CleanBase(net.text) ELSE <<>>,
                              DatePart(date_str)))

\* translate_text: lines 421-459
translate_text(text, target_language, net) ==
    IF ChatRaises(net) THEN None
    ELSE IF HasContent(net) THEN Some(Strip(net.text, Whitespace))
    ELSE None

-----------------------------------------------------------------------------
(* suggest_filename on the answers of the model: SpecSuggest *)

MaxContentLen == 3

ContentBytes == {"a", "A", "-", SP, DQ, ".", "<", ">", "/", "s", "end_of_turn"}

Answer(text) == [kind |-> "json", body |-> "content", text |-> text]
JsonOf(shape) == [kind |-> "json", body |-> shape, text |-> <<>>]
Failure(kind) == [kind |-> kind, body |-> "", text |-> <<>>]

\* The ways a call of the chat endpoint ends without a usable answer
ChatFailures ==
    {Failure("urlerror"), Failure("timed out"), Failure("Expecting value"),
     JsonOf("no_message"), JsonOf("no_content"), JsonOf("null_content"),
     JsonOf("null_message")}

Dates ==
    {None, Some(<<>>), Some(<<"2025-10-30", SP, "08-01-42">>),
     Some(<<"2025-10-30">>), Some(<<SP>>)}

Place(city, country) ==
    Some([kind |-> "object", data |-> TRUE, city |-> city, country |-> country])
Locations ==
    {None,
     Place("Berlin", "Germany"), Place("", "Germany"), Place("", ""),
     Some([kind |-> "object", data |-> FALSE, city |-> "", country |-> ""]),
     Some([kind |-> "text", data |-> FALSE, city |-> "", country |-> ""])}

InitSuggest ==
    /\ fin \in [net  : {Answer(t) : t \in SeqsUpTo(ContentBytes, MaxContentLen)}
                       \cup ChatFailures,
                date : Dates,
                loc  : {None}]
               \cup [net : ChatFailures \cup {Answer(<<"a">>)},
                     date : Dates,
                     loc  : Locations]
    /\ InitRest

RunSuggest ==
    /\ ~fout.set
    /\ fout' = Some(suggest_filename(<<"a", SP, "s">>, fin.date, fin.loc, fin.net))
    /\ UNCHANGED <<handlerVars, fin>>

SpecSuggest == InitSuggest /\ [][RunSuggest]_vars

\* Word generation failed or yielded no words
NoWords(net) ==
    \/ net.kind # "json"
    \/ net.body # "content"
    \/ Strip(net.text, Whitespace) = <<>>

\* the part of the date string before its first space
BeforeFirstSpace(date) == SplitOnce(date, <<SP>>)[1]

\* no date, or a date string that starts with its date
DateAsExpected(date_str) == Truthy(date_str) => Head(date_str.val) # SP

\* C12: when word generation fails or yields no words (model unreachable,
\* time-out, error, empty content), suggest_filename returns "image <date>.jpg"
\* when a date string is supplied, <date> being the part before its first
\* space, and "image.jpg" when none is supplied.
C12_FallbackFilename ==
    (fout.set /\ NoWords(fin.net) /\ ~LocationRaises(fin.loc)
              /\ DateAsExpected(fin.date)) =>
        fout.val = Some(IF Truthy(fin.date)
                        THEN <<"image", SP>> \o BeforeFirstSpace(fin.date.val)
                                             \o <<".jpg">>
                        ELSE <<"image.jpg">>)

Chars(s) == {s[i] : i \in 1..Len(s)}

\* The words part of a returned filename: what precedes " <date>.jpg" or ".jpg"
WordsOf(name, date_str) ==
    LET date == IF Truthy(date_str) THEN BeforeFirstSpace(date_str.val) ELSE <<>>
        tail == IF date # <<>> THEN 2 + Len(date) ELSE 1
    IN  SubSeq(name, 1, Len(name) - tail)

\* Every '<' and '>' of the answer belongs to a sentinel token
OnlySentinels(text) ==
    Chars(Delete(Delete(Delete(text, EndOfTurn), EndOfSeq), StartOfSeq))
        \cap {"<", ">", "end_of_turn"} = {}

\* C19: for every answer of the model that yields words, the words part of the
\* returned filename is lowercase, holds no hyphen, neither starts nor ends
\* with a quote or one of . , ! ?, holds none of <end_of_turn>, </s>, <s> nor
\* a fragment left over from them, and has no leading, trailing or repeated
\* whitespace.
C19_WordsAreClean ==
    (/\ fout.set /\ fout.val.set
     /\ HasContent(fin.net)
     /\ DateAsExpected(fin.date)
     /\ Head(fout.val.val) \notin {"image", "image.jpg"}) =>
        LET words == WordsOf(fout.val.val, fin.date)
        IN  /\ words # <<>>
            /\ "A" \notin Chars(words)
            /\ "-" \notin Chars(words)
            /\ Head(words) \notin QuotesAndPunctuation
            /\ words[Len(words)] \notin QuotesAndPunctuation
            /\ ~Contains(words, EndOfTurn)
            /\ ~Contains(words, EndOfSeq)
            /\ ~Contains(words, StartOfSeq)
            /\ OnlySentinels(fin.net.text) =>
                  Chars(words) \cap {"<", ">", "end_of_turn"} = {}
            /\ Head(words) \notin Whitespace
            /\ words[Len(words)] \notin Whitespace
            /\ \A i \in 1..Len(words) - 1 :
                  ~(words[i] \in Whitespace /\ words[i + 1] \in Whitespace)

-----------------------------------------------------------------------------
(* analyze_image_with_ollama: lines 295-418 *)

VisionTop == 10

\* wikidata_places and len(wikidata_places) > 0
HasPlaces(places) == places.set /\ Len(places.val) > 0

\* lines 305-360: the prompt, as the sequence of its pieces
VisionPrompt(loc, places) ==
    <<"Describe what you see">>
    \o (IF LocationParts(loc) # <<>>
        THEN <<"This photo was taken in">> \o LocationParts(loc) ELSE <<>>)
    \o (IF HasPlaces(places)
        THEN <<"these places are nearby">> \o Slice(places.val, VisionTop)
                                           \o <<"IMPORTANT">>
        ELSE <<>>)
    \o <<"Provide a single integrated sentence">>

\* the two except clauses: lines 401-418
VisionFailure(error_msg) ==
    [description |-> None, error |-> error_msg, model |-> OLLAMA_MODEL]

\* open(image_path, 'rb') and the prompt are reached before urlopen: the call
\* is made when neither raised
VisionCalls(readable, loc) == readable /\ ~LocationRaises(loc)

analyze_image_with_ollama(readable, loc, places, net) ==
    IF ~readable THEN VisionFailure(<<"Permission denied">>)
    ELSE IF LocationRaises(loc)
    THEN VisionFailure(<<"'str' object has no attribute 'get'">>)
    ELSE IF net.kind = "urlerror"
    THEN VisionFailure(<<"Failed to connect to Ollama. Is it running? Error: ",
                         net.kind>>)
    ELSE IF ChatRaises(net) THEN VisionFailure(<<ChatError(net)>>)
    ELSE [description  |-> IF HasContent(net) THEN Some(Strip(net.text, Whitespace))
                           ELSE None,
          model        |-> OLLAMA_MODEL,
          prompt       |-> VisionPrompt(loc, places),
          raw_response |-> net.body]

-----------------------------------------------------------------------------
(* The JSON endpoints of do_POST: /translate, /suggest-filename,           *)
(* /upload/vision, /wikidata-pois (lines 566-753), and the server with all *)
(* its endpoints: SpecServer                                               *)

\* A body json.loads rejects, or one that is no JSON object
BadBody == [kind |-> "bad"]

JsonType == Some(<<"application/json">>)

\* What the chat endpoint delivers to a request handler
ChatNets ==
    {Failure("urlerror"), Failure("timed out"), Failure("Expecting value"),
     JsonOf("no_message"), JsonOf("null_content"), Answer(<<"a", SP>>)}

TranslateBodies ==
    {BadBody} \cup [kind : {"json"}, text : {None, Some(<<"a">>)},
                    language : {None, Some(<<"de">>)}]

SuggestBodies ==
    {BadBody,
     [kind |-> "json", description |-> None, date |-> None, loc |-> None]}
    \cup [kind : {"json"}, description : {Some(<<"a">>)},
          date : {None, Some(<<"2025-10-30", SP, "08-01-42">>)},
          loc : {None}]
    \cup [kind : {"json"}, description : {Some(<<"a">>)},
          date : {None},
          loc : {Place("Berlin", "Germany"),
                 Some([kind |-> "text", data |-> FALSE, city |-> "", country |-> ""])}]

PlaceLists == {None, Some(<<"Q1", "Q2">>)}

\* The filenames a client asks about: none, one that was never stored, and the
\* stored ones
VisionBodies(dir) ==
    LET names == {None, Some(<<"missing">>)} \cup {Some(f.name) : f \in dir}
    IN  {BadBody}
        \cup [kind : {"json"}, filename : names, loc : {None}, places : PlaceLists]
        \cup [kind : {"json"}, filename : names, places : {None},
              loc : {Place("Berlin", "Germany"),
                     Some([kind |-> "text", data |-> FALSE,
                           city |-> "", country |-> ""])}]

WikidataBodies ==
    {BadBody} \cup [kind : {"json"}, lat : {None, Some(48 * DegUnits)},
                    lon : {None, Some(2 * DegUnits)}]

WikidataNets ==
    {[kind |-> "json",
      body |-> <<[place |-> <<"http:", "/", "/", "www.wikidata.org", "/", "entity",
                              "/", "Q1">>,
                  placeLabel |-> "Q1", instanceOfLabel |-> "city", distance |-> 4]>>],
     [kind |-> "timeout", body |-> <<>>]}

\* What every JSON endpoint does first and last: a request is taken, answered,
\* and the handler's position is "done".  These requests leave the upload
\* directory and the clock alone, so any number of them may be served.
Serve(body, code, reply, made, stage) ==
    /\ pc = "idle"
    /\ req' = [content_type |-> JsonType, content_length |-> TRUE, body |-> body]
    /\ status' = code
    /\ response' = reply
    /\ calls' = made
    /\ hist' = [hist EXCEPT !.dir0 = disk, !.stages = stage]
    /\ pc' = "done"
    /\ UNCHANGED <<sent, filename, image_data, disk, writes, clock, exif_data,
                   camera_direction, location_data, poi_data, served, fin, fout>>

\* lines 566-606
TranslateRequest ==
    /\ \E body \in TranslateBodies :
          IF body.kind = "bad"
          THEN Serve(body, 500, NoResponse, <<>>, <<>>)
          ELSE IF ~Truthy(body.text) \/ ~Truthy(body.language)
          THEN Serve(body, 400, NoResponse, <<>>, <<>>)
          ELSE \E net \in ChatNets :
                 Serve(body, 200,
                       [success     |-> TRUE,
                        translation |-> translate_text(body.text.val,
                                                       body.language.val, net),
                        language    |-> body.language.val,
                        model       |-> OLLAMA_TRANSLATION_MODEL],
                       <<[fn |-> "translate_text", net |-> net]>>,
                       <<"translate_text">>)
    /\ UNCHANGED image

\* lines 608-648
SuggestRequest ==
    /\ \E body \in SuggestBodies :
          IF body.kind = "bad"
          THEN Serve(body, 500, NoResponse, <<>>, <<>>)
          ELSE IF ~Truthy(body.description)
          THEN Serve(body, 400, NoResponse, <<>>, <<>>)
          ELSE IF LocationRaises(body.loc) \/ DatePartRaises(body.date)
          THEN Serve(body, 200,
                     [success |-> TRUE, filename |-> None,
                      model |-> OLLAMA_TRANSLATION_MODEL],
                     <<>>, <<"suggest_filename">>)
          ELSE \E net \in ChatNets :
                 Serve(body, 200,
                       [success  |-> TRUE,
                        filename |-> suggest_filename(body.description.val,
                                                      body.date, body.loc, net),
                        model    |-> OLLAMA_TRANSLATION_MODEL],
                       <<[fn |-> "suggest_filename", net |-> net]>>,
                       <<"suggest_filename">>)
    /\ UNCHANGED image

\* What open(image_path, 'rb') gives for a stored file
StoredImage(readable) == [readable |-> readable, exif |-> EmptyDir, gps |-> EmptyDir]

\* lines 650-710
VisionRequest ==
    \E body \in VisionBodies(disk) :
        IF body.kind = "bad"
        THEN Serve(body, 500, NoResponse, <<>>, <<>>) /\ UNCHANGED image
        ELSE IF ~Truthy(body.filename)
        THEN Serve(body, 400, NoResponse, <<>>, <<>>) /\ UNCHANGED image
        ELSE IF body.filename.val \notin {f.name : f \in disk}
        THEN Serve(body, 404, NoResponse, <<>>, <<>>) /\ UNCHANGED image
        ELSE \/ /\ Serve(body, 200,
                         analyze_image_with_ollama(FALSE, body.loc, body.places,
                                                   Failure("")),
                         <<>>, <<"analyze_image_with_ollama">>)
                /\ image' = StoredImage(FALSE)
             \/ /\ image' = StoredImage(TRUE)
                /\ IF VisionCalls(TRUE, body.loc)
                   THEN \E net \in ChatNets :
                          Serve(body, 200,
                                analyze_image_with_ollama(TRUE, body.loc,
                                                          body.places, net),
                                <<[fn |-> "analyze_image_with_ollama", net |-> net]>>,
                                <<"analyze_image_with_ollama">>)
                   ELSE Serve(body, 200,
                              analyze_image_with_ollama(TRUE, body.loc, body.places,
                                                        Failure("")),
                              <<>>, <<"analyze_image_with_ollama">>)

\* lines 712-753; SPARQL_AVAILABLE is set when the module is imported
WikidataRequest ==
    /\ \E body \in WikidataBodies :
          IF body.kind = "bad"
          THEN Serve(body, 500, NoResponse, <<>>, <<>>)
          ELSE IF ~body.lat.set \/ ~body.lon.set
          THEN Serve(body, 400, NoResponse, <<>>, <<>>)
          ELSE \/ Serve(body, 200,
                        [success  |-> TRUE,
                         wikidata |-> query_wikidata_pois(FALSE, Failure(""))],
                        <<>>, <<"query_wikidata_pois">>)
               \/ \E net \in WikidataNets :
                     Serve(body, 200,
                           [success  |-> TRUE,
                            wikidata |-> query_wikidata_pois(TRUE, net)],
                           <<[fn |-> "query_wikidata_pois", net |-> net]>>,
                           <<"query_wikidata_pois">>)
    /\ UNCHANGED image

NextServer ==
    \/ Next
    \/ TranslateRequest
    \/ SuggestRequest
    \/ VisionRequest
    \/ WikidataRequest

SpecServer == Init /\ [][NextServer]_vars

-----------------------------------------------------------------------------
(* Properties of the server's calls to the remote services, checked under  *)
(* SpecServer                                                              *)

VisionRan == hist.stages = <<"analyze_image_with_ollama">>

\* The remote vision call failed: the image file could not be read, or the
\* call ended in an error, a time-out, an answer that is no JSON, or a JSON
\* answer without message.content.
VisionCallFailed ==
    \/ ~image.readable
    \/ /\ calls # <<>>
       /\ \/ calls[1].net.kind # "json"
          \/ calls[1].net.body # "content"

NonEmptyText(msg) == \E i \in 1..Len(msg) : msg[i] # ""

\* C11: whenever the remote vision call fails (for the file of an upload that
\* was answered with a 200), the /upload/vision request is answered (no exception reaches its except clause) with a record that has
\* description = null, a non-empty error string and model = the configured
\* vision model.
C11_VisionFailureRecord ==
    (Answered /\ VisionRan /\ VisionCallFailed
              /\ req.body.filename.val \in hist.kept) =>
        /\ status = 200
        /\ ~response.description.set
        /\ "error" \in DOMAIN response
        /\ NonEmptyText(response.error)
        /\ response.model = OLLAMA_MODEL

CallsTo(fn) == Cardinality({i \in 1..Len(calls) : calls[i].fn = fn})

RemoteServices ==
    {"reverse_geocode", "search_nearby_poi", "query_wikidata_pois",
     "analyze_image_with_ollama", "translate_text", "suggest_filename"}

\* C17: within one request each remote service is called at most once, also
\* when the call fails or times out: no call is repeated.
C17_NothingRetried ==
    /\ \A i \in 1..Len(calls) : calls[i].fn \in RemoteServices
    /\ \A fn \in RemoteServices : CallsTo(fn) <= 1

\* C17 witness: an upload whose reverse geocoding and POI search both timed
\* out has been answered after these two calls alone.
C17_Witness ==
    /\ Answered /\ status = 200
    /\ Len(calls) = 2
    /\ calls[1].net.kind = "timeout"
    /\ calls[2].net.kind = "timeout"

====
